---- MODULE Spec2Model ----
(***************************************************************************)
(* A model of package log (src/unnamed/part_000): the Logger facade over a *)
(* LoggerOps backend, its prefix stack, its operation counter and the      *)
(* LogOp / LogCmd operation wrappers.                                      *)
(*                                                                         *)
(* Strings are sequences of tokens (a token is a one- or several-character *)
(* piece of text that is never split), so that concatenation, joining and  *)
(* interpolation are computed and can be compared piece by piece.          *)
(***************************************************************************)
EXTENDS Integers, Sequences, FiniteSets, TLC

VARIABLES
    phase,          \* "init" before New() has run, "ready" after
    ops,            \* Logger.ops: the backend
    prefixStack,    \* Logger.prefixStack
    opSequenceNum,  \* Logger.opSequenceNum
    frames,         \* the LogOp invocations in progress, outermost first
    panicking,      \* a panic raised by a wrapped action is propagating
    out,            \* history: the backend writes (and the processes run) of
                    \* the latest step, in order
    ret,            \* history: the latest step: the call, its input and result
    invs,           \* history: the operation invocations, in start order
    calls,          \* history: the PushPrefix / PopPrefix calls made (SpecStack)
    seq0,           \* history: opSequenceNum in the initial state
    flows,          \* SpecConc: each concurrent flow's position in LogOp and
                    \* the values it has loaded
    owner,          \* SpecConc, history: who pushed each prefixStack entry
    copies,         \* SpecCopy: the Logger values, prefixStack a slice
    heap            \* SpecCopy: the arrays the prefixStack slices point into

\* the state of the concurrent flows, and of the copies of a Logger value
conc == <<flows, owner>>
dup == <<copies, heap>>

vars == <<phase, ops, prefixStack, opSequenceNum, frames, panicking, out, ret,
          invs, calls, seq0, conc, dup>>

(***************************************************************************)
(* Bounds of the model.                                                    *)
(***************************************************************************)
\* Spec, SpecStack: PushPrefix is called below this stack height
MaxStack == 3
\* SpecOps: LogOp invocations in one run
MaxOps == 2
\* SpecOps: an action calls PushPrefix below this stack height
MaxOpStack == 2
\* SpecIds: LogOp and LogCmd invocations in one run
MaxIds == 3
\* SpecCmd: LogCmd invocations in one run
MaxCmds == 1
\* SpecCmd: PushPrefix is called below this stack height
MaxCmdStack == 1
\* length of a PushPrefix / PopPrefix sequence (SpecStack)
MaxCalls == 5
\* SpecCopy: PushPrefix is called below this stack height
MaxCopyStack == 1
\* SpecCopy: append allocates while the heap holds fewer arrays than this
MaxArrays == 1
\* SpecCopy: LogOp and LogCmd invocations through one Logger value
MaxCopyOps == 1
\* SpecFrame: LogOp and LogCmd invocations in one run
MaxFrameOps == 1
\* SpecFrame: PushPrefix is called below this stack height
MaxFrameStack == 1

(***************************************************************************)
(* Text.                                                                   *)
(***************************************************************************)
RECURSIVE Join(_, _)
\* strings.Join(m, sep)
Join(m, sep) ==
    IF m = <<>> THEN <<>>
    ELSE IF Len(m) = 1 THEN m[1]
    ELSE m[1] \o sep \o Join(Tail(m), sep)

HexDigits == <<"0", "1", "2", "3", "4", "5", "6", "7",
               "8", "9", "a", "b", "c", "d", "e", "f">>

RECURSIVE Hex(_)
\* the %x verb on an int: lowercase hexadecimal, no padding
Hex(n) ==
    IF n < 0 THEN <<"-">> \o Hex(-n)
    ELSE IF n < 16 THEN <<HexDigits[n + 1]>>
    ELSE Hex(n \div 16) \o <<HexDigits[(n % 16) + 1]>>

RECURSIVE Dec(_)
\* the %v verb on an int: decimal
Dec(n) ==
    IF n < 0 THEN <<"-">> \o Dec(-n)
    ELSE IF n < 10 THEN <<HexDigits[n + 1]>>
    ELSE Dec(n \div 10) \o <<HexDigits[(n % 10) + 1]>>

\* the value of an error: NoErr is Go's nil error
NoErr == [isErr |-> FALSE, msg |-> <<>>]
ErrOf(text) == [isErr |-> TRUE, msg |-> text]

\* the arguments a ...interface{} can carry in this package
StrArg(s) == [k |-> "string", s |-> s, n |-> 0, l |-> <<>>]
IntArg(n) == [k |-> "int", s |-> <<>>, n |-> n, l |-> <<>>]
ErrArg(e) == [k |-> "error", s |-> e.msg, n |-> 0, l |-> <<>>]
BytesArg(s) == [k |-> "bytes", s |-> s, n |-> 0, l |-> <<>>]
ListArg(l) == [k |-> "list", s |-> <<>>, n |-> 0, l |-> l]

Verbs == {"%s", "%v", "%x", "%q"}

\* the letter of a verb
VerbLetter(verb) ==
    CASE verb = "%s" -> "s" [] verb = "%v" -> "v" [] verb = "%x" -> "x" [] verb = "%q" -> "q"

\* one verb applied to one argument, for the verb and argument kinds this
\* package uses: %s and %v on strings and errors, %x and %v on ints, %q on
\* byte slices, %v on a []string
Render(verb, arg) ==
    IF arg.k = "int" THEN
        IF verb = "%x" THEN Hex(arg.n)
        ELSE IF verb = "%v" THEN Dec(arg.n)
        ELSE <<"%!", VerbLetter(verb), "(int=">> \o Dec(arg.n) \o <<")">>
    ELSE IF arg.k = "list" THEN
        <<"[">> \o Join(arg.l, <<" ">>) \o <<"]">>
    ELSE IF verb = "%q" THEN <<"\"">> \o arg.s \o <<"\"">>
    ELSE arg.s

RECURSIVE Interpolate(_, _)
\* the format, token by token, each verb taking the next argument; a verb
\* without an argument and arguments without a verb are marked as fmt marks
\* them (the list of the arguments left over is not spelled out)
Interpolate(format, a) ==
    IF format = <<>> THEN
        IF a = <<>> THEN <<>> ELSE <<"%!(EXTRA)">>
    ELSE IF Head(format) \in Verbs THEN
        IF a = <<>>
        THEN <<"%!", VerbLetter(Head(format)), "(MISSING)">> \o Interpolate(Tail(format), a)
        ELSE Render(Head(format), Head(a)) \o Interpolate(Tail(format), Tail(a))
    ELSE <<Head(format)>> \o Interpolate(Tail(format), a)

\* fmt.Sprintf(format, a...)
Sprintf(format, a) == Interpolate(format, a)

(***************************************************************************)
(* The backend and the Logger value.                                       *)
(***************************************************************************)
NilOps == "nil"         \* the zero value of the ops field
Syslog == "syslog"      \* the *syslog.Writer of syslog.New
Stdout == "Stdout"      \* Stdout{}, the console fallback

\* the eight severity methods of Logger, most severe first
Methods == <<"Emerg", "Alert", "Crit", "Err", "Warning", "Notice", "Info", "Debug">>
MethodSet == {Methods[i] : i \in 1..Len(Methods)}

\* the methods of the LoggerOps interface, in the same order
LoggerOps == <<"ops.Emerg", "ops.Alert", "ops.Crit", "ops.Err", "ops.Warning",
               "ops.Notice", "ops.Info", "ops.Debug">>

\* Warning handing the backend's Notice method to log
DispatchWarningAsNotice ==
    [m \in MethodSet |->
        IF m = "Warning" THEN "ops.Notice"
        ELSE LoggerOps[CHOOSE i \in 1..Len(Methods) : Methods[i] = m]]

\* the LoggerOps method each Logger method hands to log
Dispatch ==
    [m \in MethodSet |->
        CASE m = "Emerg" -> "ops.Emerg"
          [] m = "Alert" -> "ops.Alert"
          [] m = "Crit" -> "ops.Crit"
          [] m = "Err" -> "ops.Err"
          [] m = "Warning" -> "ops.Warning"
          [] m = "Notice" -> "ops.Notice"
          [] m = "Info" -> "ops.Info"
          [] m = "Debug" -> "ops.Debug"]

\* Logger{}
ZeroLogger == [ops |-> NilOps, prefixStack |-> <<>>, opSequenceNum |-> 0]

\* the Logger value the state variables hold
Self == [ops |-> ops, prefixStack |-> prefixStack, opSequenceNum |-> opSequenceNum]

\* sprintf walking the prefix stack from its newest entry
sprintfNewestFirst(l, format, a) ==
    LET n == Len(l.prefixStack)
        m == [i \in 1..n |-> Sprintf(<<"%s", ":">>, <<StrArg(l.prefixStack[n + 1 - i])>>)]
    IN Join(Append(m, Sprintf(format, a)), <<" ">>)

\* sprintf: the prefix stack, each entry with a colon, then the expanded
\* message, joined by single spaces
sprintf(l, format, a) ==
    LET m == [i \in 1..Len(l.prefixStack) |->
                 Sprintf(<<"%s", ":">>, <<StrArg(l.prefixStack[i])>>)]
    IN Join(Append(m, Sprintf(format, a)), <<" ">>)

\* log, called by severity method `method`: the backend writes it makes.
\* r is what the backend's method returns; by and inv say which function of
\* this package made the call and for which operation (0: none).
\* A nil backend makes the method value panic, and nothing is written.
log(l, method, format, a, r, by, inv) ==
    IF l.ops = NilOps THEN <<>>
    ELSE <<[ops |-> l.ops, sev |-> Dispatch[method], msg |-> sprintf(l, format, a),
            res |-> r, by |-> by, inv |-> inv]>>

\* log counting the lines it writes in the operation counter
AfterLogCounting(l) == [l EXCEPT !.opSequenceNum = @ + 1]

\* log and sprintf (value receivers, no field assigned): the caller's logger
\* after a severity method has returned
AfterLog(l) == l

\* Close (value receiver, no field assigned): the caller's logger afterwards
AfterClose(l) == l

\* Close: the call it makes of the backend, which returns r (Close drops it)
CloseCalls(l, r, inv) ==
    IF l.ops = NilOps THEN <<>>
    ELSE <<[ops |-> l.ops, sev |-> "ops.Close", msg |-> <<>>, res |-> r,
            by |-> "Close", inv |-> inv]>>

\* PushPrefix putting the label below the others
PushPrefixFront(l, format, a) ==
    [l EXCEPT !.prefixStack = <<Sprintf(format, a)>> \o l.prefixStack]

\* PushPrefix: the logger afterwards
PushPrefix(l, format, a) ==
    [l EXCEPT !.prefixStack = Append(l.prefixStack, Sprintf(format, a))]

\* PopPrefix taking the oldest entry instead of the newest
PopPrefixOldest(l) ==
    IF Len(l.prefixStack) = 0 THEN l
    ELSE [l EXCEPT !.prefixStack = Tail(l.prefixStack)]

\* PopPrefix: the logger afterwards
PopPrefix(l) ==
    IF Len(l.prefixStack) = 0 THEN l
    ELSE [l EXCEPT !.prefixStack = SubSeq(l.prefixStack, 1, Len(l.prefixStack) - 1)]

\* PopPrefix saying nothing of an empty stack
PopPrefixWritesNone(l, r, inv) == <<>>

\* PopPrefix: the backend writes it makes
PopPrefixWrites(l, r, inv) ==
    IF Len(l.prefixStack) = 0
    THEN log(l, "Debug", <<"popped from empty stack">>, <<>>, r, "PopPrefix", inv)
    ELSE <<>>

\* logStart with one space after its marker
logStartOneSpace(l, format, a, r, inv) ==
    log(l, "Info", Sprintf(<<"[started]", " ", "%s">>, <<StrArg(format)>>), a,
        r, "logStart", inv)

\* logStart, logFail, logFinish
logStart(l, format, a, r, inv) ==
    log(l, "Info", Sprintf(<<"[started]", " ", " ", "%s">>, <<StrArg(format)>>), a,
        r, "logStart", inv)

logFail(l, format, a, r, inv) ==
    log(l, "Crit", Sprintf(<<"[failed]", " ", " ", " ", "%s">>, <<StrArg(format)>>), a,
        r, "logFail", inv)

logFinish(l, format, a, r, inv) ==
    log(l, "Info", Sprintf(<<"[finished]", " ", "%s">>, <<StrArg(format)>>), a,
        r, "logFinish", inv)

\* LogOp without the increment
NextSeqSame(n) == n

\* LogOp, line 141: the counter after the increment
NextSeq(n) == n + 1

\* LogOp up to the call of op: the logger and the writes
LogOpEnter(l, format, a, r) ==
    LET n == NextSeq(l.opSequenceNum)
        l1 == [l EXCEPT !.opSequenceNum = n]
        l2 == PushPrefix(l1, <<"op(", "%x", ")">>, <<IntArg(l1.opSequenceNum)>>)
    IN [l |-> l2, w |-> logStart(l2, format, a, r, n)]

\* LogOp without the return after logFail: it goes on to logFinish
LogOpOutcomeFallsThrough(l, id, format, a, err, r) ==
    IF err.isErr
    THEN logFail(l, <<"%s", ":", " ", "%v">>, <<StrArg(Sprintf(format, a)), ErrArg(err)>>,
                 r, id) \o logFinish(l, format, a, r, id)
    ELSE logFinish(l, format, a, r, id)

\* LogOp, lines 146-151: the writes once op has returned err
LogOpOutcome(l, id, format, a, err, r) ==
    IF err.isErr
    THEN logFail(l, <<"%s", ":", " ", "%v">>, <<StrArg(Sprintf(format, a)), ErrArg(err)>>,
                 r, id)
    ELSE logFinish(l, format, a, r, id)

\* LogOp returning a failure of its own in place of op's
LogOpResultOwn(err) == IF err.isErr THEN ErrOf(<<"operation failed">>) ELSE NoErr

\* LogOp, lines 148 and 151: what LogOp returns once op has returned err
LogOpResult(err) == IF err.isErr THEN err ELSE NoErr

\* LogOp returning the failure of the write of its terminal line
LogOpLeaveWriteChecked(l, id, format, a, err, r, rpop) ==
    LET w1 == LogOpOutcome(l, id, format, a, err, r)
    IN [l |-> PopPrefix(l), w |-> w1 \o PopPrefixWrites(l, rpop, id),
        val |-> IF r.isErr THEN r ELSE LogOpResult(err)]

\* LogOp from the return of op on, the deferred PopPrefix included
LogOpLeave(l, id, format, a, err, r, rpop) ==
    LET w1 == LogOpOutcome(l, id, format, a, err, r)
    IN [l |-> PopPrefix(l), w |-> w1 \o PopPrefixWrites(l, rpop, id),
        val |-> LogOpResult(err)]

\* LogOp popping at its end only, not in a deferred call
LogOpUnwindNoPop(l, id, rpop) == [l |-> l, w |-> <<>>]

\* LogOp when op panics: only the deferred PopPrefix runs
LogOpUnwind(l, id, rpop) ==
    [l |-> PopPrefix(l), w |-> PopPrefixWrites(l, rpop, id)]

\* LogCmd with one buffer for both streams
CmdFailureOneBuffer(err, stdout, stderr) ==
    ErrOf(Sprintf(<<"%v", ":", " ", "Stdout", ":", " ", "%q", " ", "Stderr", ":", " ", "%q">>,
                  <<ErrArg(err), BytesArg(stdout \o stderr), BytesArg(stdout \o stderr)>>))

\* LogCmd, line 132: the failure f returns when cmd.Run() returned err
CmdFailure(err, stdout, stderr) ==
    ErrOf(Sprintf(<<"%v", ":", " ", "Stdout", ":", " ", "%q", " ", "Stderr", ":", " ", "%q">>,
                  <<ErrArg(err), BytesArg(stdout), BytesArg(stderr)>>))

\* LogCmd, lines 122-126: the debug line of f
CmdExecuting(l, cmd, r, inv) ==
    IF Len(cmd.Args) <= 1
    THEN log(l, "Debug", <<"executing", ":", " ", "%v">>, <<StrArg(cmd.Path)>>,
             r, "LogCmd", inv)
    ELSE log(l, "Debug", <<"executing", ":", " ", "%v", " ", "%v">>,
             <<StrArg(cmd.Path), ListArg(Tail(cmd.Args))>>, r, "LogCmd", inv)

\* LogCmd, line 131: cmd.Run(), the process run to its end
CmdRun(cmd, run, inv) ==
    <<[ops |-> "os/exec", sev |-> "cmd.Run", msg |-> cmd.Path, res |-> run.err,
       by |-> "LogCmd", inv |-> inv]>>

\* f running the process before it writes the debug line
CmdBodyRunFirst(l, cmd, run, r, inv) ==
    CmdRun(cmd, run, inv) \o CmdExecuting(l, cmd, r, inv)

\* LogCmd, lines 121-135: what f does, in order: the debug line, then the
\* process
CmdBody(l, cmd, run, r, inv) ==
    CmdExecuting(l, cmd, r, inv) \o CmdRun(cmd, run, inv)

\* LogCmd, lines 127-134: what f returns; run is what the process did
CmdResult(run) ==
    IF run.err.isErr THEN CmdFailure(run.err, run.stdout, run.stderr) ELSE NoErr

\* New reporting the failure before it assigns the fallback
NewReporterEarly(before, after) == before

\* New, lines 51-52: the logger whose Err reports the failure, given the
\* logger before and after the fallback is assigned
NewReporter(before, after) == after

(***************************************************************************)
(* What the callers of the package supply.                                 *)
(***************************************************************************)
\* (format, a...) of PushPrefix calls: the labels "A" and "B"
PrefixInputs ==
    {[format |-> <<"A">>, a |-> <<>>],
     [format |-> <<"%s">>, a |-> <<StrArg(<<"B">>)>>]}

\* (format, a...) of severity and operation calls: "msg" and "n=1a"
MsgInputs ==
    {[format |-> <<"msg">>, a |-> <<>>],
     [format |-> <<"n=", "%x">>, a |-> <<IntArg(26)>>]}

\* what a backend method returns
WriteResults == {NoErr, ErrOf(<<"write failed">>)}

\* the failures a wrapped action returns
ActionErrs == {ErrOf(<<"e1">>), ErrOf(<<"e2">>)}

\* why syslog.New fails
OpenErrs == {ErrOf(<<"dial failed">>)}

\* the commands given to LogCmd: without and with arguments
Cmds ==
    {[Path |-> <<"/bin/true">>, Args |-> <<<<"true">>>>],
     [Path |-> <<"/bin/ls">>, Args |-> <<<<"ls">>, <<"-l">>, <<"x">>>>]}

\* what cmd.Run() does: its error and what the process wrote
Runs ==
    {[err |-> NoErr, stdout |-> <<"out">>, stderr |-> <<>>],
     [err |-> ErrOf(<<"exit status 1">>), stdout |-> <<"out">>, stderr |-> <<"oops">>],
     [err |-> ErrOf(<<"exit status 2">>), stdout |-> <<>>, stderr |-> <<"bad">>]}

\* the inputs of the operation specifications
OpMsgInputs == {[format |-> <<"n=", "%x">>, a |-> <<IntArg(26)>>]}
OpPrefixInputs == {[format |-> <<"A">>, a |-> <<>>]}

\* the operations a logger has run before the first step (0: a new logger)
StartSeqs == {0, 14}

(***************************************************************************)
(* The calls, as actions.                                                  *)
(***************************************************************************)
\* the operation in progress whose action is running (0: none)
TopId == IF frames = <<>> THEN 0 ELSE frames[Len(frames)].id

\* a step: the call, the operation it belongs to, what it returned, its
\* input, the prefix stack before the call, and the prefix stack before the
\* step (they differ for LogOp, whose call spans the steps of its action)
Event(call, id, val, arg, base) ==
    [call |-> call, id |-> id, val |-> val, arg |-> arg, base |-> base,
     mid |-> prefixStack]

SetLogger(l) ==
    /\ ops' = l.ops
    /\ prefixStack' = l.prefixStack
    /\ opSequenceNum' = l.opSequenceNum

Running == phase = "ready" /\ ~panicking

\* the lines of w that hold the token mark
Marked(w, mark) ==
    SelectSeq(w, LAMBDA x : \E i \in 1..Len(x.msg) : x.msg[i] = mark)

\* the record of an invocation, the lines w it has just written counted in
Tallied(rec, w, state) ==
    [rec EXCEPT !.started = @ + Len(Marked(w, "[started]")),
                !.failed = @ + Len(Marked(w, "[failed]")),
                !.finished = @ + Len(Marked(w, "[finished]")),
                !.state = state]

\* a new invocation: the counter value it took and the prefix it pushed
NewInv(l) ==
    [id |-> l.opSequenceNum,
     prefix |-> IF l.prefixStack = <<>> THEN <<>> ELSE l.prefixStack[Len(l.prefixStack)],
     started |-> 0, failed |-> 0, finished |-> 0, state |-> "new"]

\* logger := New()
New(openErr, r) ==
    /\ phase = "init"
    /\ LET before == ZeroLogger
           after == [before EXCEPT !.ops = IF openErr.isErr THEN Stdout ELSE Syslog]
           reporter == NewReporter(before, after)
           crash == openErr.isErr /\ reporter.ops = NilOps
       IN /\ SetLogger(after)
          /\ out' = IF openErr.isErr
                    THEN log(reporter, "Err", <<"unable to open syslog", ":", " ", "%v">>,
                             <<ErrArg(openErr)>>, r, "New", 0)
                    ELSE <<>>
          /\ phase' = IF crash THEN "failed" ELSE "ready"
          /\ ret' = Event("New", 0, NoErr, openErr, <<>>)
    /\ UNCHANGED <<frames, panicking, invs, calls, seq0, conc, dup>>

\* l.Emerg(format, a...), ..., l.Debug(format, a...)
Severity(m, in, r) ==
    /\ Running
    /\ out' = log(Self, m, in.format, in.a, r, "caller", TopId)
    /\ SetLogger(AfterLog(Self))
    /\ ret' = Event(m, TopId, r, in, prefixStack)
    /\ UNCHANGED <<phase, frames, panicking, invs, calls, seq0, conc, dup>>

\* l.Close()
DoClose(r) ==
    /\ Running
    /\ out' = CloseCalls(Self, r, TopId)
    /\ SetLogger(AfterClose(Self))
    /\ ret' = Event("Close", TopId, NoErr, NoErr, prefixStack)
    /\ UNCHANGED <<phase, frames, panicking, invs, calls, seq0, conc, dup>>

\* l.PushPrefix(format, a...)
DoPushPrefix(in) ==
    /\ Running
    /\ SetLogger(PushPrefix(Self, in.format, in.a))
    /\ out' = <<>>
    /\ ret' = Event("PushPrefix", TopId, NoErr, in, prefixStack)
    /\ UNCHANGED <<phase, frames, panicking, invs, seq0, conc, dup>>

\* l.PopPrefix()
DoPopPrefix(r) ==
    /\ Running
    /\ SetLogger(PopPrefix(Self))
    /\ out' = PopPrefixWrites(Self, r, TopId)
    /\ ret' = Event("PopPrefix", TopId, NoErr, NoErr, prefixStack)
    /\ UNCHANGED <<phase, frames, panicking, invs, seq0, conc, dup>>

\* l.LogOp(op, format, a...), up to the call of op
LogOpBegin(in, r) ==
    /\ Running
    /\ LET e == LogOpEnter(Self, in.format, in.a, r)
           k == Len(invs) + 1
       IN /\ SetLogger(e.l)
          /\ out' = e.w
          /\ frames' = Append(frames, [id |-> e.l.opSequenceNum, k |-> k,
                                       format |-> in.format, a |-> in.a,
                                       base |-> prefixStack])
          /\ invs' = Append(invs, Tallied(NewInv(e.l),
                                          e.w, "running"))
          /\ ret' = Event("LogOp.op", e.l.opSequenceNum, NoErr, in, prefixStack)
    /\ UNCHANGED <<phase, panicking, calls, seq0, conc, dup>>

\* the state of an invocation that has ended, from what LogOp returned
Ended(val) == IF val.isErr THEN "failed" ELSE "finished"

\* op returns err, and LogOp runs to its end
LogOpReturn(err, r, rpop) ==
    /\ Running
    /\ frames /= <<>>
    /\ LET f == frames[Len(frames)]
           e == LogOpLeave(Self, f.id, f.format, f.a, err, r, rpop)
       IN /\ SetLogger(e.l)
          /\ out' = e.w
          /\ invs' = [invs EXCEPT ![f.k] = Tallied(@, e.w, Ended(err))]
          /\ ret' = Event("LogOp", f.id, e.val, err, f.base)
    /\ frames' = SubSeq(frames, 1, Len(frames) - 1)
    /\ UNCHANGED <<phase, panicking, calls, seq0, conc, dup>>

\* op panics, or the LogOp it called did: the panic leaves this LogOp
LogOpPanic(rpop) ==
    /\ phase = "ready"
    /\ frames /= <<>>
    /\ LET f == frames[Len(frames)]
           e == LogOpUnwind(Self, f.id, rpop)
       IN /\ SetLogger(e.l)
          /\ out' = e.w
          /\ invs' = [invs EXCEPT ![f.k] = Tallied(@, e.w, "panicked")]
          /\ ret' = Event("LogOp.panic", f.id, NoErr, NoErr, f.base)
    /\ frames' = SubSeq(frames, 1, Len(frames) - 1)
    /\ panicking' = TRUE
    /\ UNCHANGED <<phase, calls, seq0, conc, dup>>

\* the caller of the panicking LogOp recovers
Recover ==
    /\ phase = "ready"
    /\ panicking
    /\ panicking' = FALSE
    /\ out' = <<>>
    /\ ret' = Event("recover", TopId, NoErr, NoErr, prefixStack)
    /\ UNCHANGED <<phase, ops, prefixStack, opSequenceNum, frames, invs, calls, seq0, conc, dup>>

\* l.LogCmd(cmd, format, a...): LogOp around the closure f
LogCmd(cmd, in, run, rs) ==
    /\ Running
    /\ LET e == LogOpEnter(Self, in.format, in.a, rs[1])
           id == e.l.opSequenceNum
           w == CmdBody(e.l, cmd, run, rs[2], id)
           res == CmdResult(run)
           x == LogOpLeave(e.l, id, in.format, in.a, res, rs[3], rs[3])
       IN /\ SetLogger(x.l)
          /\ out' = e.w \o w \o x.w
          /\ invs' = Append(invs, Tallied(NewInv(e.l), e.w \o w \o x.w,
                                          Ended(res)))
          /\ ret' = Event("LogCmd", id, x.val, [run |-> run, cmd |-> cmd, in |-> in], prefixStack)
    /\ UNCHANGED <<phase, frames, panicking, calls, seq0, conc, dup>>

\* what the backend returns to a PopPrefix, which writes on an empty stack only
PopResults == IF prefixStack = <<>> THEN WriteResults ELSE {NoErr}

(***************************************************************************)
(* Spec: construction, then severity and prefix calls.                     *)
(***************************************************************************)
\* one flow calls the logger, through one Logger value
OneFlowOneValue ==
    /\ flows = <<>>
    /\ owner = <<>>
    /\ copies = <<>>
    /\ heap = <<>>

NoEvent ==
    [call |-> "none", id |-> 0, val |-> NoErr, arg |-> NoErr, base |-> <<>>, mid |-> <<>>]

Init ==
    /\ phase = "init"
    /\ ops = ZeroLogger.ops
    /\ prefixStack = ZeroLogger.prefixStack
    /\ opSequenceNum = ZeroLogger.opSequenceNum
    /\ frames = <<>>
    /\ panicking = FALSE
    /\ out = <<>>
    /\ ret = NoEvent
    /\ invs = <<>>
    /\ calls = <<>>
    /\ seq0 = ZeroLogger.opSequenceNum
    /\ OneFlowOneValue

Next ==
    \/ \E e \in OpenErrs \cup {NoErr}, r \in WriteResults : New(e, r)
    \/ \E m \in MethodSet, in \in MsgInputs, r \in WriteResults : Severity(m, in, r)
    \/ \E in \in PrefixInputs :
           Len(prefixStack) < MaxStack /\ DoPushPrefix(in) /\ UNCHANGED calls
    \/ \E r \in PopResults : DoPopPrefix(r) /\ UNCHANGED calls

Spec == Init /\ [][Next]_vars

(***************************************************************************)
(* A logger in use: New() has returned it, and start operations have run   *)
(* on it to their end, leaving the prefix stack empty.                     *)
(***************************************************************************)
InitUsed(starts) ==
    /\ phase = "ready"
    /\ ops = Syslog
    /\ prefixStack = <<>>
    /\ seq0 \in starts
    /\ opSequenceNum = seq0
    /\ frames = <<>>
    /\ panicking = FALSE
    /\ out = <<>>
    /\ ret = NoEvent
    /\ invs = <<>>
    /\ calls = <<>>
    /\ OneFlowOneValue

(***************************************************************************)
(* SpecStack: sequences of PushPrefix and PopPrefix calls, recorded.       *)
(***************************************************************************)
InitStack == InitUsed({0})

NextStack ==
    \/ \E in \in PrefixInputs :
           /\ Len(calls) < MaxCalls
           /\ Len(prefixStack) < MaxStack
           /\ DoPushPrefix(in)
           /\ calls' = Append(calls, [call |-> "PushPrefix", label |-> Sprintf(in.format, in.a)])
    \/ \E r \in PopResults :
           /\ Len(calls) < MaxCalls
           /\ DoPopPrefix(r)
           /\ calls' = Append(calls, [call |-> "PopPrefix", label |-> <<>>])

SpecStack == InitStack /\ [][NextStack]_vars

(***************************************************************************)
(* SpecOps: LogOp calls, nested and in sequence, around actions that may   *)
(* push and pop prefixes, call LogCmd, return, fail or panic.              *)
(***************************************************************************)
InitOps == InitUsed({0})

NextOps ==
    \/ \E in \in OpMsgInputs, r \in WriteResults :
           opSequenceNum < seq0 + MaxOps /\ LogOpBegin(in, r)
    \/ \E err \in ActionErrs \cup {NoErr}, r \in WriteResults, rpop \in PopResults :
           LogOpReturn(err, r, rpop)
    \/ \E rpop \in PopResults : LogOpPanic(rpop)
    \/ Recover
    \/ \E cmd \in Cmds, in \in OpMsgInputs, run \in Runs, rs \in [1..3 -> {NoErr}] :
           opSequenceNum < seq0 + MaxOps /\ LogCmd(cmd, in, run, rs)
    \/ \E in \in OpPrefixInputs :
           Len(prefixStack) < MaxOpStack /\ DoPushPrefix(in) /\ UNCHANGED calls
    \/ \E r \in PopResults : DoPopPrefix(r) /\ UNCHANGED calls

SpecOps == InitOps /\ [][NextOps]_vars

(***************************************************************************)
(* SpecIds: LogOp and LogCmd calls, nested and in sequence, on a new       *)
(* logger and on one that has run operations before.                       *)
(***************************************************************************)
InitIds == InitUsed(StartSeqs)

NextIds ==
    \/ \E in \in OpMsgInputs, r \in WriteResults :
           opSequenceNum < seq0 + MaxIds /\ LogOpBegin(in, r)
    \/ \E err \in ActionErrs \cup {NoErr}, r \in WriteResults, rpop \in PopResults :
           LogOpReturn(err, r, rpop)
    \/ \E rpop \in PopResults : LogOpPanic(rpop)
    \/ Recover
    \/ \E cmd \in Cmds, in \in OpMsgInputs, run \in Runs, rs \in [1..3 -> {NoErr}] :
           opSequenceNum < seq0 + MaxIds /\ LogCmd(cmd, in, run, rs)

SpecIds == InitIds /\ [][NextIds]_vars

(***************************************************************************)
(* SpecCmd: LogCmd calls under caller-made prefixes.                       *)
(***************************************************************************)
InitCmd == InitUsed({0})

NextCmd ==
    \/ \E cmd \in Cmds, in \in MsgInputs, run \in Runs, rs \in [1..3 -> WriteResults] :
           opSequenceNum < seq0 + MaxCmds /\ LogCmd(cmd, in, run, rs)
    \/ \E in \in OpPrefixInputs :
           Len(prefixStack) < MaxCmdStack /\ DoPushPrefix(in) /\ UNCHANGED calls
    \/ \E r \in PopResults : DoPopPrefix(r) /\ UNCHANGED calls

SpecCmd == InitCmd /\ [][NextCmd]_vars

(***************************************************************************)
(* SpecFrame: severity calls and Close among prefix calls and operations,  *)
(* inside the actions of LogOp and outside.                                *)
(***************************************************************************)
InitFrame == InitUsed({0})

NextFrame ==
    \/ \E m \in MethodSet, in \in OpMsgInputs, r \in WriteResults : Severity(m, in, r)
    \/ \E r \in WriteResults : DoClose(r)
    \/ \E in \in OpPrefixInputs :
           Len(prefixStack) < MaxFrameStack /\ DoPushPrefix(in) /\ UNCHANGED calls
    \/ \E r \in PopResults : DoPopPrefix(r) /\ UNCHANGED calls
    \/ \E in \in OpMsgInputs :
           opSequenceNum < seq0 + MaxFrameOps /\ LogOpBegin(in, NoErr)
    \/ \E err \in ActionErrs \cup {NoErr}, rpop \in PopResults :
           LogOpReturn(err, NoErr, rpop)
    \/ \E cmd \in Cmds, in \in OpMsgInputs, run \in Runs, rs \in [1..3 -> {NoErr}] :
           opSequenceNum < seq0 + MaxFrameOps /\ LogCmd(cmd, in, run, rs)

SpecFrame == InitFrame /\ [][NextFrame]_vars

(***************************************************************************)
(* SpecConc: two flows call LogOp on the same logger with no lock. The     *)
(* statements of LogOp, PushPrefix and PopPrefix interleave, and a         *)
(* statement that reads and writes a field of the logger is two steps, the *)
(* load and the store, as the fields are plain memory. A slice is loaded   *)
(* and stored whole, and append makes a new value.                         *)
(***************************************************************************)
Flows == {1, 2}

\* the other flow
Other(p) == 3 - p

\* the mark of the one who pushed a prefix entry: a flow, or the caller before
Tag(p) == <<IF p = 1 THEN "flow 1" ELSE "flow 2">>
CallerTag == <<"caller">>

\* the logger with stack in the place of its prefix stack
WithStack(stack) == [Self EXCEPT !.prefixStack = stack]

\* flow p is inside LogOp
Inside(p) == flows[p].pc \notin {"idle", "done"}

\* a step of flow p: what it called, the prefix stack and the owners of its
\* entries before the step
FlowEvent(call, p) ==
    [call |-> call, flow |-> p, mid |-> prefixStack, was |-> owner]

\* flow p is at pc, and goes on to next
At(p, pc) == ~panicking /\ flows[p].pc = pc

\* the newest prefix entry is one the other flow pushed
UnderOthers(p) == owner /= <<>> /\ owner[Len(owner)] = Tag(Other(p))

\* line 141, l.opSequenceNum++: the load
IncLoad(p) ==
    /\ At(p, "idle")
    /\ flows' = [q \in Flows |->
                    IF q = p
                    THEN [flows[q] EXCEPT !.pc = "141.load", !.n = opSequenceNum,
                                          !.met = Inside(Other(p))]
                    ELSE [flows[q] EXCEPT !.met = @ \/ Inside(q)]]
    /\ out' = <<>>
    /\ ret' = FlowEvent("LogOp", p)
    /\ UNCHANGED <<phase, ops, prefixStack, opSequenceNum, frames, panicking, invs,
                   calls, seq0, owner, dup>>

\* line 141, l.opSequenceNum++: the store
IncStore(p) ==
    /\ At(p, "141.load")
    /\ opSequenceNum' = NextSeq(flows[p].n)
    /\ flows' = [flows EXCEPT ![p].pc = "141"]
    /\ out' = <<>>
    /\ ret' = FlowEvent("opSequenceNum++", p)
    /\ UNCHANGED <<phase, ops, prefixStack, frames, panicking, invs, calls, seq0,
                   owner, dup>>

\* line 142: the argument l.opSequenceNum of PushPrefix is loaded
PushArg(p) ==
    /\ At(p, "141")
    /\ flows' = [flows EXCEPT ![p].pc = "142", ![p].n = opSequenceNum]
    /\ out' = <<>>
    /\ ret' = FlowEvent("l.opSequenceNum", p)
    /\ UNCHANGED <<phase, ops, prefixStack, opSequenceNum, frames, panicking, invs,
                   calls, seq0, owner, dup>>

\* line 105, PushPrefix: l.prefixStack is loaded
PushLoad(p) ==
    /\ At(p, "142")
    /\ flows' = [flows EXCEPT ![p].pc = "105.load", ![p].s = prefixStack,
                              ![p].t = owner]
    /\ out' = <<>>
    /\ ret' = FlowEvent("PushPrefix.load", p)
    /\ UNCHANGED <<phase, ops, prefixStack, opSequenceNum, frames, panicking, invs,
                   calls, seq0, owner, dup>>

\* line 105, PushPrefix: the appended slice is stored
PushStore(p) ==
    /\ At(p, "105.load")
    /\ prefixStack' = PushPrefix(WithStack(flows[p].s), <<"op(", "%x", ")">>,
                                 <<IntArg(flows[p].n)>>).prefixStack
    /\ owner' = PushPrefix(WithStack(flows[p].t), Tag(p), <<>>).prefixStack
    /\ flows' = [flows EXCEPT ![p].pc = "143"]
    /\ out' = <<>>
    /\ ret' = FlowEvent("PushPrefix", p)
    /\ UNCHANGED <<phase, ops, opSequenceNum, frames, panicking, invs, calls, seq0,
                   dup>>

\* line 145: logStart
FlowStart(p, in, r) ==
    /\ At(p, "143")
    /\ out' = logStart(Self, in.format, in.a, r, flows[p].n)
    /\ flows' = [flows EXCEPT ![p].pc = "145", ![p].in = in,
                              ![p].crossed = @ \/ UnderOthers(p)]
    /\ ret' = FlowEvent("logStart", p)
    /\ UNCHANGED <<phase, ops, prefixStack, opSequenceNum, frames, panicking, invs,
                   calls, seq0, owner, dup>>

\* line 146: op() returns err
FlowAct(p, err) ==
    /\ At(p, "145")
    /\ flows' = [flows EXCEPT ![p].pc = "146", ![p].err = err]
    /\ out' = <<>>
    /\ ret' = FlowEvent("op", p)
    /\ UNCHANGED <<phase, ops, prefixStack, opSequenceNum, frames, panicking, invs,
                   calls, seq0, owner, dup>>

\* lines 147-151: logFail or logFinish, and the return
FlowEnd(p, r) ==
    /\ At(p, "146")
    /\ out' = LogOpOutcome(Self, flows[p].n, flows[p].in.format, flows[p].in.a,
                           flows[p].err, r)
    /\ flows' = [flows EXCEPT ![p].pc = "return",
                              ![p].crossed = @ \/ UnderOthers(p)]
    /\ ret' = FlowEvent("logEnd", p)
    /\ UNCHANGED <<phase, ops, prefixStack, opSequenceNum, frames, panicking, invs,
                   calls, seq0, owner, dup>>

\* the deferred PopPrefix, lines 111-114: the length is loaded and tested
PopTest(p, r) ==
    /\ At(p, "return")
    /\ out' = PopPrefixWrites(Self, r, flows[p].n)
    /\ flows' = [flows EXCEPT ![p].pc = IF Len(prefixStack) = 0 THEN "done" ELSE "111"]
    /\ ret' = FlowEvent("PopPrefix.test", p)
    /\ UNCHANGED <<phase, ops, prefixStack, opSequenceNum, frames, panicking, invs,
                   calls, seq0, owner, dup>>

\* line 115: l.prefixStack and its length are loaded; slicing an empty slice
\* to [:-1] is a run-time panic
PopLoad(p) ==
    /\ At(p, "111")
    /\ IF Len(prefixStack) = 0
       THEN /\ panicking' = TRUE
            /\ flows' = [flows EXCEPT ![p].pc = "done"]
       ELSE /\ panicking' = panicking
            /\ flows' = [flows EXCEPT ![p].pc = "115.load", ![p].s = prefixStack,
                                      ![p].t = owner]
    /\ out' = <<>>
    /\ ret' = FlowEvent("PopPrefix.load", p)
    /\ UNCHANGED <<phase, ops, prefixStack, opSequenceNum, frames, invs, calls, seq0,
                   owner, dup>>

\* line 115: the shortened slice is stored
PopStore(p) ==
    /\ At(p, "115.load")
    /\ prefixStack' = PopPrefix(WithStack(flows[p].s)).prefixStack
    /\ owner' = PopPrefix(WithStack(flows[p].t)).prefixStack
    /\ flows' = [flows EXCEPT ![p].pc = "done"]
    /\ out' = <<>>
    /\ ret' = FlowEvent("PopPrefix", p)
    /\ UNCHANGED <<phase, ops, opSequenceNum, frames, panicking, invs, calls, seq0,
                   dup>>

\* a flow that has not called LogOp yet
IdleFlow ==
    [pc |-> "idle", n |-> 0, s |-> <<>>, t |-> <<>>, in |-> NoErr, err |-> NoErr,
     met |-> FALSE, crossed |-> FALSE]

\* the logger in use, with no prefix or the caller's prefix "A" on the stack
InitConc ==
    /\ phase = "ready"
    /\ ops = Syslog
    /\ prefixStack \in {<<>>, <<<<"A">>>>}
    /\ owner = [i \in 1..Len(prefixStack) |-> CallerTag]
    /\ seq0 = 0
    /\ opSequenceNum = seq0
    /\ frames = <<>>
    /\ panicking = FALSE
    /\ out = <<>>
    /\ ret = FlowEvent("none", 0)
    /\ invs = <<>>
    /\ calls = <<>>
    /\ flows = [p \in Flows |-> IdleFlow]
    /\ copies = <<>>
    /\ heap = <<>>

NextConc ==
    \E p \in Flows :
        \/ IncLoad(p)
        \/ IncStore(p)
        \/ PushArg(p)
        \/ PushLoad(p)
        \/ PushStore(p)
        \/ \E in \in OpMsgInputs, r \in WriteResults : FlowStart(p, in, r)
        \/ \E err \in {NoErr, ErrOf(<<"e1">>)} : FlowAct(p, err)
        \/ \E r \in WriteResults : FlowEnd(p, r)
        \/ \E r \in PopResults : PopTest(p, r)
        \/ PopLoad(p)
        \/ PopStore(p)

SpecConc == InitConc /\ [][NextConc]_vars

(***************************************************************************)
(* SpecCopy: a Logger value is used, then copied (logger2 := logger), and  *)
(* both values are used. prefixStack is a slice: a pointer to an array, a  *)
(* length and a capacity, and a copy of the Logger copies these three, not *)
(* the array.                                                              *)
(***************************************************************************)
\* the nil slice of Logger{}
NilSlice == [arr |-> 0, len |-> 0, cap |-> 0]

\* the elements of slice sl, in heap h
Elements(h, sl) == [i \in 1..sl.len |-> h[sl.arr][i]]

\* the capacity of the array append allocates for newLen elements when the
\* old one, of oldCap elements, is full (slices of fewer than 256 elements)
GrownCap(oldCap, newLen) == IF newLen > 2 * oldCap THEN newLen ELSE 2 * oldCap

\* append(sl, s): in place when the capacity allows, else into a new array;
\* the heap and the slice afterwards
append(h, sl, s) ==
    IF sl.len < sl.cap
    THEN [h |-> [h EXCEPT ![sl.arr][sl.len + 1] = s],
          sl |-> [sl EXCEPT !.len = @ + 1]]
    ELSE LET c == GrownCap(sl.cap, sl.len + 1)
             a == [i \in 1..c |-> IF i <= sl.len THEN h[sl.arr][i]
                                  ELSE IF i = sl.len + 1 THEN s ELSE <<>>]
         IN [h |-> Append(h, a),
             sl |-> [arr |-> Len(h) + 1, len |-> sl.len + 1, cap |-> c]]

\* the Logger value lg as log and sprintf read it: its prefix entries
View(h, lg) ==
    [ops |-> lg.ops, prefixStack |-> Elements(h, lg.prefixStack),
     opSequenceNum |-> lg.opSequenceNum]

\* PushPrefix through a pointer to the value lg: the heap and lg afterwards
ValuePushPrefix(h, lg, format, a) ==
    LET r == append(h, lg.prefixStack, Sprintf(format, a))
    IN [h |-> r.h, l |-> [lg EXCEPT !.prefixStack = r.sl]]

\* PopPrefix through a pointer to the value lg: lg afterwards
ValuePopPrefix(lg) ==
    IF lg.prefixStack.len = 0 THEN lg
    ELSE [lg EXCEPT !.prefixStack.len = @ - 1]

\* LogOp through a pointer to the value lg, around an action that returns
\* err and does not use the logger: the heap, lg and the writes
ValueLogOpAround(h, lg, format, a, err, body, rs) ==
    LET l1 == [lg EXCEPT !.opSequenceNum = NextSeq(@)]
        e == ValuePushPrefix(h, l1, <<"op(", "%x", ")">>, <<IntArg(l1.opSequenceNum)>>)
        v == View(e.h, e.l)
        id == l1.opSequenceNum
    IN [h |-> e.h, l |-> ValuePopPrefix(e.l),
        w |-> logStart(v, format, a, rs[1], id) \o body
                 \o LogOpOutcome(v, id, format, a, err, rs[3])
                 \o PopPrefixWrites(v, rs[3], id),
        val |-> LogOpResult(err)]

\* a step through the Logger value number copy
ValueEvent(call, copy, val) == [call |-> call, copy |-> copy, val |-> val]

\* the state variables SpecCopy does not use
OnlyCopies ==
    UNCHANGED <<phase, ops, prefixStack, opSequenceNum, frames, panicking, invs,
                calls, seq0, conc>>

\* copy i exists and a new array may be needed
Held(i) == i \in 1..Len(copies)

\* logger2 := logger
Duplicate ==
    /\ Len(copies) = 1
    /\ copies' = <<copies[1], copies[1]>>
    /\ out' = <<>>
    /\ ret' = ValueEvent("copy", 0, NoErr)
    /\ UNCHANGED heap
    /\ OnlyCopies

ValuePush(i, in) ==
    /\ Held(i)
    /\ LET r == ValuePushPrefix(heap, copies[i], in.format, in.a)
       IN /\ heap' = r.h
          /\ copies' = [copies EXCEPT ![i] = r.l]
    /\ out' = <<>>
    /\ ret' = ValueEvent("PushPrefix", i, NoErr)
    /\ OnlyCopies

ValuePop(i, r) ==
    /\ Held(i)
    /\ copies' = [copies EXCEPT ![i] = ValuePopPrefix(@)]
    /\ out' = PopPrefixWrites(View(heap, copies[i]), r, 0)
    /\ ret' = ValueEvent("PopPrefix", i, NoErr)
    /\ UNCHANGED heap
    /\ OnlyCopies

ValueSeverity(i, m, in, r) ==
    /\ Held(i)
    /\ out' = log(View(heap, copies[i]), m, in.format, in.a, r, "caller", 0)
    /\ copies' = [copies EXCEPT ![i] = AfterLog(@)]
    /\ ret' = ValueEvent(m, i, r)
    /\ UNCHANGED heap
    /\ OnlyCopies

ValueLogOp(i, in, err, rs) ==
    /\ Held(i)
    /\ LET x == ValueLogOpAround(heap, copies[i], in.format, in.a, err, <<>>, rs)
       IN /\ heap' = x.h
          /\ copies' = [copies EXCEPT ![i] = x.l]
          /\ out' = x.w
          /\ ret' = ValueEvent("LogOp", i, x.val)
    /\ OnlyCopies

ValueLogCmd(i, cmd, in, run, rs) ==
    /\ Held(i)
    /\ LET l1 == [copies[i] EXCEPT !.opSequenceNum = NextSeq(@)]
           e == ValuePushPrefix(heap, l1, <<"op(", "%x", ")">>,
                                <<IntArg(l1.opSequenceNum)>>)
           body == CmdBody(View(e.h, e.l), cmd, run, rs[2], l1.opSequenceNum)
           x == ValueLogOpAround(heap, copies[i], in.format, in.a, CmdResult(run),
                                 body, rs)
       IN /\ heap' = x.h
          /\ copies' = [copies EXCEPT ![i] = x.l]
          /\ out' = x.w
          /\ ret' = ValueEvent("LogCmd", i, x.val)
    /\ OnlyCopies

\* the appended entry fits the array, or the heap has room for a new array
Fits(i) ==
    /\ Held(i)
    /\ \/ copies[i].prefixStack.len < copies[i].prefixStack.cap
       \/ Len(heap) < MaxArrays

InitCopy ==
    /\ phase = "ready"
    /\ ops = Syslog
    /\ prefixStack = <<>>
    /\ seq0 = 0
    /\ opSequenceNum = seq0
    /\ frames = <<>>
    /\ panicking = FALSE
    /\ out = <<>>
    /\ ret = ValueEvent("New", 1, NoErr)
    /\ invs = <<>>
    /\ calls = <<>>
    /\ flows = <<>>
    /\ owner = <<>>
    /\ copies = <<[ops |-> Syslog, prefixStack |-> NilSlice, opSequenceNum |-> 0]>>
    /\ heap = <<>>

NextCopy ==
    \/ Duplicate
    \/ \E i \in 1..2, in \in PrefixInputs :
           /\ Fits(i)
           /\ copies[i].prefixStack.len < MaxCopyStack
           /\ ValuePush(i, in)
    \/ \E i \in 1..2 : ValuePop(i, NoErr)
    \/ \E i \in 1..2, m \in MethodSet, in \in OpMsgInputs :
           ValueSeverity(i, m, in, NoErr)
    \/ \E i \in 1..2, in \in OpMsgInputs, err \in {NoErr, ErrOf(<<"e1">>)},
          rs \in [1..3 -> {NoErr}] :
           /\ Fits(i)
           /\ copies[i].opSequenceNum < MaxCopyOps
           /\ ValueLogOp(i, in, err, rs)
    \/ \E i \in 1..2, cmd \in Cmds, in \in OpMsgInputs, run \in Runs,
          rs \in [1..3 -> {NoErr}] :
           /\ Fits(i)
           /\ copies[i].opSequenceNum < MaxCopyOps
           /\ ValueLogCmd(i, cmd, in, run, rs)

SpecCopy == InitCopy /\ [][NextCopy]_vars

(***************************************************************************)
(* Properties.                                                             *)
(***************************************************************************)
\* the last element of a non-empty sequence
Last(q) == q[Len(q)]

\* how many of the calls cs[i..j] are calls of `call`
CountCalls(cs, call, i, j) == Cardinality({n \in i..j : cs[n].call = call})

\* no start of the sequence holds more PopPrefix than PushPrefix calls
NeverOverPops(cs) ==
    \A n \in 1..Len(cs) :
        CountCalls(cs, "PopPrefix", 1, n) <= CountCalls(cs, "PushPrefix", 1, n)

\* the PopPrefix at j removes the label pushed at i: the nearest earlier
\* PushPrefix with as many pushes as pops between the two
Removes(cs, j, i) ==
    /\ cs[j].call = "PopPrefix"
    /\ i < j
    /\ cs[i].call = "PushPrefix"
    /\ CountCalls(cs, "PushPrefix", i + 1, j - 1) = CountCalls(cs, "PopPrefix", i + 1, j - 1)
    /\ \A n \in (i + 1)..(j - 1) :
           cs[n].call = "PushPrefix" =>
               CountCalls(cs, "PushPrefix", n + 1, j - 1)
                   /= CountCalls(cs, "PopPrefix", n + 1, j - 1)

\* the labels of the sequence no PopPrefix removes, in push order
Survivors(cs) ==
    LET numbered == [n \in 1..Len(cs) |-> [n |-> n, label |-> cs[n].label]]
        kept == SelectSeq(numbered,
                          LAMBDA x : /\ cs[x.n].call = "PushPrefix"
                                     /\ ~ \E j \in 1..Len(cs) : Removes(cs, j, x.n))
    IN [n \in 1..Len(kept) |-> kept[n].label]

\* C1: after a sequence of PushPrefix and PopPrefix calls that never pops more
\* than was pushed, the prefix stack holds the pushed labels, each PopPrefix
\* having removed the most recently pushed label still present, the others
\* in the order they were pushed.
C1_PushPopIsLifo == NeverOverPops(calls) => prefixStack = Survivors(calls)

\* C1: a label is pushed, popped, and two that differ are left after a
\* second pop
C1_Witness ==
    /\ NeverOverPops(calls)
    /\ Len(calls) = 5
    /\ calls[2].call = "PopPrefix"
    /\ calls[5].call = "PopPrefix"
    /\ Len(prefixStack) = 1
    /\ prefixStack[1] /= calls[4].label

\* the value of one lowercase hexadecimal digit (-1: not one)
HexDigitValue(d) ==
    CASE d = "0" -> 0 [] d = "1" -> 1 [] d = "2" -> 2 [] d = "3" -> 3
      [] d = "4" -> 4 [] d = "5" -> 5 [] d = "6" -> 6 [] d = "7" -> 7
      [] d = "8" -> 8 [] d = "9" -> 9 [] d = "a" -> 10 [] d = "b" -> 11
      [] d = "c" -> 12 [] d = "d" -> 13 [] d = "e" -> 14 [] d = "f" -> 15
      [] OTHER -> -1

RECURSIVE HexValue(_)
\* the number a text of lowercase hexadecimal digits stands for (-1: none)
HexValue(ds) ==
    IF ds = <<>> THEN -1
    ELSE IF HexDigitValue(Last(ds)) < 0 THEN -1
    ELSE IF Len(ds) = 1 THEN HexDigitValue(ds[1])
    ELSE LET hi == HexValue(SubSeq(ds, 1, Len(ds) - 1))
         IN IF hi <= 0 THEN -1 ELSE 16 * hi + HexDigitValue(Last(ds))

\* the identifier a prefix "op(<id>)" names (-1: it is no such prefix)
OpIdOf(prefix) ==
    IF Len(prefix) >= 3 /\ prefix[1] = "op(" /\ Last(prefix) = ")"
    THEN HexValue(SubSeq(prefix, 2, Len(prefix) - 1))
    ELSE -1

\* the line msg is written under a prefix stack whose newest entry is prefix:
\* prefix, a colon and a space come right before the "[started]" marker
EndsWithPrefix(msg, prefix) ==
    \E i \in 1..Len(msg) :
        /\ msg[i] = "[started]"
        /\ i > Len(prefix) + 2
        /\ SubSeq(msg, i - Len(prefix) - 2, i - 1) = prefix \o <<":", " ">>

\* C2: every LogOp invocation increments the counter once, before anything
\* else: the k-th invocation started on a logger, nested, failed or not,
\* pushes the prefix "op(<k in lowercase hexadecimal>)" (counting from the
\* seq0 invocations made before), the counter is the number of invocations
\* started, and no two invocations use the same identifier.
C2_IdsCountInvocations ==
    /\ opSequenceNum = seq0 + Len(invs)
    /\ \A k \in 1..Len(invs) :
           /\ invs[k].id = seq0 + k
           /\ OpIdOf(invs[k].prefix) = seq0 + k
           /\ invs[k].started = 1
    /\ \A j, k \in 1..Len(invs) : j /= k => invs[j].prefix /= invs[k].prefix
    /\ ret.call = "LogOp.op" =>
           /\ ret.id = opSequenceNum
           /\ Len(out) = 1
           /\ EndsWithPrefix(out[1].msg, Last(invs).prefix)

\* C2: the 15th and 16th invocations, the second inside the first: ids f, 10
C2_Witness ==
    /\ seq0 = 14
    /\ Len(frames) = 2
    /\ invs[1].prefix = <<"op(", "f", ")">>
    /\ invs[2].prefix = <<"op(", "1", "0", ")">>

\* the history record of the invocation with identifier id
InvOf(id) == invs[id - seq0]

\* the prefix stack holds the entry
OnStack(stack, entry) == \E i \in 1..Len(stack) : stack[i] = entry

\* the action of the LogOp that ends in this step left the prefix stack as it
\* found it: the stack the call began with, and the synthetic prefix
LeftAsFound == ret.mid = Append(ret.base, InvOf(ret.id).prefix)

\* the lines of this step that end an operation
Terminal(w) ==
    SelectSeq(w, LAMBDA x : \E i \in 1..Len(x.msg) : x.msg[i] \in {"[failed]", "[finished]"})

\* what C3 says of the lines and the result of a LogOp whose action failed
FailureReported ==
    /\ Len(Marked(out, "[failed]")) = 1
    /\ Marked(out, "[failed]")[1].sev = "ops.Crit"
    /\ Marked(out, "[finished]") = <<>>
    /\ InvOf(ret.id).failed = 1
    /\ InvOf(ret.id).finished = 0
    /\ ret.val = ret.arg
    /\ \A k \in 1..Len(invs) :
           invs[k].state = "failed" => invs[k].failed = 1 /\ invs[k].finished = 0

\* C3, as claimed: when the action of LogOp returns a failure, one critical
\* "[failed]" line and no "[finished]" line is written for the invocation,
\* LogOp returns that same failure, and afterwards the "op(<id>)" prefix is
\* not on the stack.
C3_AsClaimed ==
    (ret.call = "LogOp" /\ ret.arg.isErr) =>
        /\ FailureReported
        /\ ~OnStack(prefixStack, InvOf(ret.id).prefix)

\* C3, amended: when the action of LogOp returns a failure, one critical
\* "[failed]" line and no "[finished]" line is written for the invocation and
\* LogOp returns that same failure; if the action left the prefix stack as it
\* found it, the "op(<id>)" prefix is not on the stack afterwards.
C3_FailureReported ==
    (ret.call = "LogOp" /\ ret.arg.isErr) =>
        /\ FailureReported
        /\ LeftAsFound => ~OnStack(prefixStack, InvOf(ret.id).prefix)

\* C3: a LogOp called under a prefix fails, its "[failed]" write failing too
C3_Witness ==
    /\ ret.call = "LogOp"
    /\ ret.arg = ErrOf(<<"e2">>)
    /\ LeftAsFound
    /\ ret.base = <<<<"A">>>>
    /\ Len(out) = 1
    /\ out[1].res.isErr
    /\ prefixStack = ret.base

\* text piece stands in text msg from position i on
Occurs(msg, piece, i) ==
    /\ i >= 1
    /\ i + Len(piece) - 1 <= Len(msg)
    /\ SubSeq(msg, i, i + Len(piece) - 1) = piece

\* the line carries prefix p and, somewhere after it, prefix q
CarriesInOrder(msg, p, q) ==
    \E i, j \in 1..Len(msg) :
        /\ Occurs(msg, p \o <<":", " ">>, i)
        /\ Occurs(msg, q \o <<":", " ">>, j)
        /\ i + Len(p) + 2 <= j

\* entry p is below entry q on the stack
Below(stack, p, q) ==
    \E i, j \in 1..Len(stack) : i < j /\ stack[i] = p /\ stack[j] = q

\* the step starts a LogOp inside the action of another
InnerBegins == ret.call = "LogOp.op" /\ Len(frames) >= 2

\* the step ends a LogOp called inside the action of another
InnerEnds == ret.call = "LogOp" /\ frames /= <<>>

\* the step ends a LogOp inside whose action others were called
OuterEnds == ret.call = "LogOp" /\ ret.id - seq0 < Len(invs)

\* the prefix of the LogOp whose action is running
RunningPrefix == invs[Last(frames).k].prefix

\* C4, as claimed: an inner LogOp pushes its prefix after (above) the outer
\* one and pops it before, its start and end lines carry the outer and then
\* the inner prefix, and once the outer call returns the stack is what it was
\* before the outer call.
C4_AsClaimed ==
    /\ InnerBegins =>
           /\ Below(prefixStack, invs[frames[Len(frames) - 1].k].prefix, RunningPrefix)
           /\ \A n \in 1..Len(out) :
                  CarriesInOrder(out[n].msg, invs[frames[Len(frames) - 1].k].prefix,
                                 RunningPrefix)
    /\ InnerEnds =>
           /\ ~OnStack(prefixStack, InvOf(ret.id).prefix)
           /\ OnStack(prefixStack, RunningPrefix)
           /\ \A n \in 1..Len(Terminal(out)) :
                  CarriesInOrder(Terminal(out)[n].msg, RunningPrefix, InvOf(ret.id).prefix)
    /\ OuterEnds => prefixStack = ret.base

\* C4, amended: the same, for actions that leave the prefix stack as they
\* found it: the outer prefix is still on the stack when the inner LogOp is
\* called, and each action ends with the stack it began with.
C4_NestedInOrder ==
    /\ (InnerBegins /\ OnStack(ret.base, invs[frames[Len(frames) - 1].k].prefix)) =>
           /\ Below(prefixStack, invs[frames[Len(frames) - 1].k].prefix, RunningPrefix)
           /\ Last(prefixStack) = RunningPrefix
           /\ Len(out) = 1
           /\ CarriesInOrder(out[1].msg, invs[frames[Len(frames) - 1].k].prefix,
                             RunningPrefix)
    /\ (InnerEnds /\ LeftAsFound /\ OnStack(ret.base, RunningPrefix)) =>
           /\ ~OnStack(prefixStack, InvOf(ret.id).prefix)
           /\ OnStack(prefixStack, RunningPrefix)
           /\ Len(Terminal(out)) = 1
           /\ CarriesInOrder(Terminal(out)[1].msg, RunningPrefix, InvOf(ret.id).prefix)
    /\ (OuterEnds /\ LeftAsFound) => prefixStack = ret.base

\* C4: an outer LogOp called under a prefix returns after an inner one ended
C4_Witness ==
    /\ OuterEnds
    /\ LeftAsFound
    /\ frames = <<>>
    /\ ret.base = <<<<"A">>>>
    /\ InvOf(ret.id + 1).state = "failed"
    /\ prefixStack = ret.base

\* the step is the exit of a LogOp: a return, or a panic passing through
LogOpExits == ret.call \in {"LogOp", "LogOp.panic"}

\* C5, as claimed: on every exit of LogOp, for any action, the "op(<id>)"
\* prefix is off the stack and the stack is what it was before the call.
C5_AsClaimed ==
    LogOpExits =>
        /\ ~OnStack(prefixStack, InvOf(ret.id).prefix)
        /\ prefixStack = ret.base

\* C5, amended: on every exit of LogOp (the action succeeds, fails or
\* panics), for any action that leaves the prefix stack as it found it, the
\* "op(<id>)" prefix is off the stack and the stack is what it was before the
\* call.
C5_PrefixPoppedOnExit ==
    (LogOpExits /\ LeftAsFound) =>
        /\ ~OnStack(prefixStack, InvOf(ret.id).prefix)
        /\ prefixStack = ret.base

\* C5: the action of a LogOp called under a prefix panics
C5_Witness ==
    /\ ret.call = "LogOp.panic"
    /\ LeftAsFound
    /\ ret.base = <<<<"A">>>>
    /\ prefixStack = ret.base
    /\ panicking

RECURSIVE Prefixed(_, _)
\* text under the prefixes of a stack, oldest first, each followed by a colon
\* and one space
Prefixed(stack, text) ==
    IF stack = <<>> THEN text
    ELSE Head(stack) \o <<":", " ">> \o Prefixed(Tail(stack), text)

\* the expanded message of the two inputs of MsgInputs
Expanded(in) == IF in.a = <<>> THEN <<"msg">> ELSE <<"n=", "1", "a">>

\* C6: every severity call hands the backend the prefix-stack entries, oldest
\* first, each with a colon, then the caller's expanded message, all joined
\* by exactly one space: "A: B: msg" under the stack [A, B], and the message
\* alone under an empty stack.
C6_PrefixesThenMessage ==
    ret.call \in MethodSet =>
        /\ Len(out) = 1
        /\ out[1].msg = Prefixed(ret.base, Expanded(ret.arg))
        /\ ret.base = <<>> => out[1].msg = Expanded(ret.arg)
        /\ (ret.base = <<<<"A">>, <<"B">>>> /\ ret.arg.a = <<>>) =>
               out[1].msg = <<"A", ":", " ", "B", ":", " ", "msg">>

\* C6: Info("msg") under the stack [A, B]
C6_Witness ==
    /\ ret.call = "Info"
    /\ ret.base = <<<<"A">>, <<"B">>>>
    /\ Len(out) = 1
    /\ out[1].msg = <<"A", ":", " ", "B", ":", " ", "msg">>

\* C7: PopPrefix on an empty stack does not fail, leaves the stack empty and
\* the counter as it was, and makes exactly one backend write, at debug
\* severity; on a non-empty stack it makes no backend write.
C7_EmptyPopIsOneDebugLine ==
    [][ret'.call = "PopPrefix" =>
           /\ opSequenceNum' = opSequenceNum
           /\ panicking' = panicking
           /\ phase' = phase
           /\ frames' = frames
           /\ IF prefixStack = <<>>
              THEN /\ prefixStack' = <<>>
                   /\ Len(out') = 1
                   /\ out'[1].sev = "ops.Debug"
              ELSE /\ out' = <<>>
                   /\ Len(prefixStack') = Len(prefixStack) - 1]_vars

\* C7: PopPrefix on the empty stack of a logger that has run an operation,
\* the write of the debug line failing
C7_Witness ==
    /\ ret.call = "PopPrefix"
    /\ ret.mid = <<>>
    /\ prefixStack = <<>>
    /\ opSequenceNum > seq0
    /\ Len(out) = 1
    /\ out[1].res.isErr
    /\ ~panicking

\* C8: New always returns a logger with a backend: the system log, with
\* nothing logged, if it opens; else the console fallback, assigned first,
\* through which exactly one error-severity line reporting the failure is
\* then written under no prefix. New never fails.
C8_NewFallsBack ==
    /\ phase /= "failed"
    /\ phase = "ready" => ops \in {Syslog, Stdout}
    /\ ret.call = "New" =>
           /\ phase = "ready"
           /\ ~panicking
           /\ prefixStack = <<>>
           /\ IF ret.arg.isErr
              THEN /\ ops = Stdout
                   /\ Len(out) = 1
                   /\ out[1].ops = Stdout
                   /\ out[1].sev = "ops.Err"
                   /\ out[1].msg = <<"unable to open syslog", ":", " ">> \o ret.arg.msg
              ELSE /\ ops = Syslog
                   /\ out = <<>>

\* C8: the system log does not open, and the write of the report fails
C8_Witness ==
    /\ ret.call = "New"
    /\ ret.arg.isErr
    /\ ops = Stdout
    /\ Len(out) = 1
    /\ out[1].res.isErr
    /\ phase = "ready"

\* C9: each of the eight severity methods makes exactly one backend write,
\* with the backend method of the same severity, and returns what that write
\* returned.
C9_OneWriteSameSeverity ==
    ret.call \in MethodSet =>
        /\ Len(out) = 1
        /\ out[1].ops = ops
        /\ \E i \in 1..Len(Methods) : Methods[i] = ret.call /\ LoggerOps[i] = out[1].sev
        /\ ret.val = out[1].res

\* C9: a Warning whose write fails
C9_Witness ==
    /\ ret.call = "Warning"
    /\ ret.val.isErr
    /\ Len(out) = 1
    /\ out[1].sev = "ops.Warning"

\* the %q form of the plain text s
Quoted(s) == <<"\"">> \o s \o <<"\"">>

\* the text of the failure of LogCmd for a run that failed
Composite(run) ==
    run.err.msg \o <<":", " ", "Stdout", ":", " ">> \o Quoted(run.stdout)
                \o <<" ", "Stderr", ":", " ">> \o Quoted(run.stderr)

\* text msg ends with text piece
EndsWith(msg, piece) == Occurs(msg, piece, Len(msg) - Len(piece) + 1)

\* C10: when the process run by LogCmd fails, LogCmd returns, and its one
\* "[failed]" critical line ends with, the error of the process followed by
\* the quoted standard output and the quoted standard error, each stream its
\* own; when the process succeeds LogCmd returns no failure and writes a
\* "[finished]" line.
C10_CmdFailureCarriesOutput ==
    ret.call = "LogCmd" =>
        IF ret.arg.run.err.isErr
        THEN /\ ret.val = ErrOf(Composite(ret.arg.run))
             /\ Len(Marked(out, "[failed]")) = 1
             /\ Marked(out, "[failed]")[1].sev = "ops.Crit"
             /\ EndsWith(Marked(out, "[failed]")[1].msg,
                         <<":", " ">> \o Composite(ret.arg.run))
             /\ Marked(out, "[finished]") = <<>>
        ELSE /\ ret.val = NoErr
             /\ Len(Marked(out, "[finished]")) = 1
             /\ Marked(out, "[finished]")[1].sev = "ops.Info"
             /\ Marked(out, "[failed]") = <<>>

\* C10: a command with arguments writes "out" and "oops" and fails
C10_Witness ==
    /\ ret.call = "LogCmd"
    /\ ret.arg.run.err = ErrOf(<<"exit status 1">>)
    /\ ret.arg.run.stdout = <<"out">>
    /\ Len(ret.arg.cmd.Args) > 1
    /\ ret.val.msg = <<"exit status 1", ":", " ", "Stdout", ":", " ", "\"", "out", "\"",
                       " ", "Stderr", ":", " ", "\"", "oops", "\"">>

\* the line msg has the marker as the first token of its message, right after
\* prefix, a colon and a space: prefix is the last prefix entry of the line
MarkedUnder(msg, mark, prefix) ==
    \E i \in 1..Len(msg) :
        /\ msg[i] = mark
        /\ \A j \in 1..(i - 1) : msg[j] /= mark
        /\ i > Len(prefix) + 2
        /\ SubSeq(msg, i - Len(prefix) - 2, i - 1) = prefix \o <<":", " ">>

\* the invocations whose action is running are those of frames, once each
RunsOnce ==
    /\ \A k \in 1..Len(invs) :
           invs[k].state = "running" <=>
               Cardinality({n \in 1..Len(frames) : frames[n].k = k}) = 1
    /\ \A n \in 1..Len(frames) : frames[n].k \in 1..Len(invs)
    /\ \A m, n \in 1..Len(frames) : m /= n => frames[m].k /= frames[n].k

\* the lines an invocation has written so far, by its state: one "[started]"
\* line, and once its action has returned one terminal line of the one kind
OneStartOneEnd(rec) ==
    /\ rec.state \in {"running", "finished", "failed", "panicked"}
    /\ rec.started = 1
    /\ rec.state \in {"running", "panicked"} => rec.finished = 0 /\ rec.failed = 0
    /\ rec.state = "finished" => rec.finished = 1 /\ rec.failed = 0
    /\ rec.state = "failed" => rec.finished = 0 /\ rec.failed = 1

\* the step that calls the action writes the "[started]" line only: one
\* informational line, under the invocation's own prefix
StartLineFirst ==
    ret.call = "LogOp.op" =>
        /\ Len(out) = 1
        /\ out[1].sev = "ops.Info"
        /\ out[1].inv = ret.id
        /\ MarkedUnder(out[1].msg, "[started]", InvOf(ret.id).prefix)
        /\ Terminal(out) = <<>>
        /\ InvOf(ret.id).state = "running"

\* the step in which the action returns writes one terminal line and no
\* "[started]" line: "[finished]", informational, after a success and
\* "[failed]", critical, after a failure
OneTerminalLine ==
    ret.call = "LogOp" =>
        /\ Len(Terminal(out)) = 1
        /\ Marked(out, "[started]") = <<>>
        /\ Terminal(out)[1] = out[1]
        /\ out[1].inv = ret.id
        /\ InvOf(ret.id).state = Ended(ret.arg)
        /\ IF ret.arg.isErr
           THEN /\ Marked(out, "[failed]") = <<out[1]>>
                /\ out[1].sev = "ops.Crit"
           ELSE /\ Marked(out, "[finished]") = <<out[1]>>
                /\ out[1].sev = "ops.Info"

\* the marker of the terminal line of a LogOp that ends in this step
EndMark == IF ret.arg.isErr THEN "[failed]" ELSE "[finished]"

\* C11, as claimed: every LogOp invocation writes one informational
\* "[started]" line before its action begins, runs the action once, and once
\* the action has returned writes one terminal line, informational
\* "[finished]" or critical "[failed]", never both and never a second; each of
\* these lines has the invocation's "op(<id>)" prefix as its last prefix entry.
C11_AsClaimed ==
    /\ RunsOnce
    /\ \A k \in 1..Len(invs) : OneStartOneEnd(invs[k])
    /\ StartLineFirst
    /\ OneTerminalLine
    /\ ret.call = "LogOp" =>
           MarkedUnder(out[1].msg, EndMark, InvOf(ret.id).prefix)

\* C11, amended: the same, the terminal line having the invocation's
\* "op(<id>)" prefix as its last prefix entry if the action left the prefix
\* stack as it found it.
C11_StartedThenOneEnd ==
    /\ RunsOnce
    /\ \A k \in 1..Len(invs) : OneStartOneEnd(invs[k])
    /\ StartLineFirst
    /\ OneTerminalLine
    /\ (ret.call = "LogOp" /\ LeftAsFound) =>
           MarkedUnder(out[1].msg, EndMark, InvOf(ret.id).prefix)

\* C11: an inner LogOp has failed and the outer one finishes, each with its
\* own prefix on its terminal line
C11_Witness ==
    /\ ret.call = "LogOp"
    /\ ~ret.arg.isErr
    /\ LeftAsFound
    /\ Len(invs) = 2
    /\ ret.id = seq0 + 1
    /\ invs[2].state = "failed"
    /\ invs[2].failed = 1
    /\ invs[1].finished = 1
    /\ MarkedUnder(out[1].msg, "[finished]", <<"op(", "1", ")">>)

\* the expanded message of the input of OpMsgInputs
OpMessage == <<"n=", "1", "a">>

\* the lines of this step that logStart, logFail and logFinish wrote
ByLogger(w, fn) == SelectSeq(w, LAMBDA x : x.by = fn)

\* the prefix stack under which the lines of an operation are written in
\* this step: LogCmd pushes the prefix of the operation itself
LineStack ==
    CASE ret.call = "LogOp.op" -> prefixStack
      [] ret.call = "LogOp" -> ret.mid
      [] ret.call = "LogCmd" -> Append(ret.mid, InvOf(ret.id).prefix)

\* the failure the action of the operation that ends in this step returned
ActionFailure == IF ret.call = "LogCmd" THEN ret.val ELSE ret.arg

\* the lines of the operations of this step are the prefixes, then the
\* markers start, fail and finish (each with its spaces), then the message
MarkersAre(start, fail, finish) ==
    /\ ret.call \in {"LogOp.op", "LogCmd"} =>
           /\ Len(ByLogger(out, "logStart")) = 1
           /\ ByLogger(out, "logStart")[1].msg = Prefixed(LineStack, start \o OpMessage)
    /\ (ret.call \in {"LogOp", "LogCmd"} /\ ~ActionFailure.isErr) =>
           /\ Len(ByLogger(out, "logFinish")) = 1
           /\ ByLogger(out, "logFinish")[1].msg = Prefixed(LineStack, finish \o OpMessage)
    /\ (ret.call \in {"LogOp", "LogCmd"} /\ ActionFailure.isErr) =>
           /\ Len(ByLogger(out, "logFail")) = 1
           /\ ByLogger(out, "logFail")[1].msg =
                  Prefixed(LineStack, fail \o OpMessage \o <<":", " ">> \o ActionFailure.msg)

\* C12, as claimed: the message of the start line of an operation is the
\* marker "[started]", one space, and the caller's interpolated message, and
\* likewise "[finished]" and "[failed]" for the terminal lines: prefix
\* entries, marker and message are separated by single spaces only.
C12_AsClaimed ==
    MarkersAre(<<"[started]", " ">>, <<"[failed]", " ">>, <<"[finished]", " ">>)

\* C12, amended: every marker is padded with spaces to eleven characters:
\* "[started]" is followed by two spaces, "[failed]" by three and
\* "[finished]" by one, then comes the caller's interpolated message, and on
\* the "[failed]" line a colon, a space and the failure after it.
C12_MarkersPadded ==
    MarkersAre(<<"[started]", " ", " ">>, <<"[failed]", " ", " ", " ">>,
               <<"[finished]", " ">>)

\* C12: the "[failed]" line of a LogOp called under the prefix "A"
C12_Witness ==
    /\ ret.call = "LogOp"
    /\ ret.arg = ErrOf(<<"e1">>)
    /\ Len(out) = 1
    /\ out[1].msg = <<"A", ":", " ", "op(", "1", ")", ":", " ", "[failed]", " ", " ", " ",
                      "n=", "1", "a", ":", " ", "e1">>

\* the calls that may change the prefix stack or the operation counter, as
\* the steps name them
Mutators == {"PushPrefix", "PopPrefix", "LogOp.op", "LogOp", "LogCmd"}

\* C13: the eight severity operations and Close leave the prefix stack and
\* the operation counter unchanged, whether the backend write succeeds or
\* fails; only PushPrefix, PopPrefix, LogOp and LogCmd change them.
C13_SeverityAndCloseKeepContext ==
    [][/\ ret'.call \in MethodSet \cup {"Close"} =>
              /\ prefixStack' = prefixStack
              /\ opSequenceNum' = opSequenceNum
       /\ (prefixStack' /= prefixStack \/ opSequenceNum' /= opSequenceNum) =>
              ret'.call \in Mutators]_vars

\* C13: in the action of a LogOp called under the prefix "A", a Crit whose
\* write fails
C13_Witness ==
    /\ ret.call = "Crit"
    /\ ret.val.isErr
    /\ Len(out) = 1
    /\ out[1].res.isErr
    /\ opSequenceNum = seq0 + 1
    /\ prefixStack = <<<<"A">>, <<"op(", "1", ")">>>>
    /\ ret.base = prefixStack

\* the text of the debug line of LogCmd: the path and, when the command has
\* arguments beyond the program name, the list of those
ExecutingText(cmd) ==
    IF Len(cmd.Args) > 1
    THEN <<"executing", ":", " ">> \o cmd.Path \o <<" ", "[">>
             \o Join(Tail(cmd.Args), <<" ">>) \o <<"]">>
    ELSE <<"executing", ":", " ">> \o cmd.Path

\* C14: a LogCmd call takes exactly one operation identifier and writes, in
\* this order: the "[started]" line, the debug line with the command path
\* (and the argument list only when there are arguments beyond the program
\* name) under the operation's "op(<id>)" prefix, then runs the process, then
\* writes the "[finished]" or "[failed]" line.
C14_CmdLineBeforeRun ==
    [][ret'.call = "LogCmd" =>
           /\ opSequenceNum' = opSequenceNum + 1
           /\ ret'.id = opSequenceNum'
           /\ Len(invs') = Len(invs) + 1
           /\ OpIdOf(Last(invs').prefix) = opSequenceNum'
           /\ prefixStack' = prefixStack
           /\ Len(out') = 4
           /\ Marked(out', "[started]") = <<out'[1]>>
           /\ out'[2].sev = "ops.Debug"
           /\ out'[2].msg = Prefixed(Append(prefixStack, Last(invs').prefix),
                                     ExecutingText(ret'.arg.cmd))
           /\ out'[3].sev = "cmd.Run"
           /\ out'[3].msg = ret'.arg.cmd.Path
           /\ Terminal(out') = <<out'[4]>>]_vars

\* C14: the 16th operation of a logger, a command with arguments run inside
\* the action of the 15th
C14_Witness ==
    /\ ret.call = "LogCmd"
    /\ seq0 = 14
    /\ ret.id = 16
    /\ Len(out) = 4
    /\ out[2].msg = <<"op(", "f", ")", ":", " ", "op(", "1", "0", ")", ":", " ",
                      "executing", ":", " ", "/bin/ls", " ", "[", "-l", " ", "x", "]">>
    /\ out[3].sev = "cmd.Run"
    /\ out[3].res.isErr

\* a stack without its top entry (the empty stack stays empty)
Popped(stack) == IF stack = <<>> THEN <<>> ELSE SubSeq(stack, 1, Len(stack) - 1)

\* whatever the write of the "[started]" line returned, the action is called,
\* once, under the synthetic prefix
ActionCalled ==
    ret.call = "LogOp.op" =>
        /\ Len(out) = 1
        /\ frames /= <<>>
        /\ Last(frames).id = ret.id
        /\ Cardinality({n \in 1..Len(frames) : frames[n].id = ret.id}) = 1
        /\ InvOf(ret.id).state = "running"
        /\ prefixStack = Append(ret.base, InvOf(ret.id).prefix)

\* whatever the write of the terminal line returned, LogOp ends, and returns
\* a failure exactly if the action returned one: that very failure
ResultIsActions ==
    ret.call = "LogOp" =>
        /\ ret.val.isErr <=> ret.arg.isErr
        /\ ret.val = ret.arg
        /\ ~ \E n \in 1..Len(frames) : frames[n].id = ret.id
        /\ InvOf(ret.id).state = Ended(ret.arg)

\* C17, as claimed: backend write failures on the "[started]", "[finished]"
\* and "[failed]" lines change neither the control flow nor the result of
\* LogOp: the action is executed once, the synthetic prefix is popped, and
\* LogOp returns a failure exactly if the action did, and then that failure.
C17_AsClaimed ==
    /\ ActionCalled
    /\ ResultIsActions
    /\ (ret.call = "LogOp" /\ out[1].res.isErr) =>
           ~OnStack(prefixStack, InvOf(ret.id).prefix)

\* C17, amended: the same, the deferred PopPrefix removing the top entry of
\* the stack, which is the synthetic prefix if the action left the prefix
\* stack as it found it.
C17_WriteFailuresIgnored ==
    /\ ActionCalled
    /\ ResultIsActions
    /\ ret.call = "LogOp" =>
           /\ prefixStack = Popped(ret.mid)
           /\ LeftAsFound =>
                  /\ ~OnStack(prefixStack, InvOf(ret.id).prefix)
                  /\ prefixStack = ret.base

\* C17: the write of the "[finished]" line fails, and LogOp returns no failure
C17_Witness ==
    /\ ret.call = "LogOp"
    /\ ~ret.arg.isErr
    /\ ~ret.val.isErr
    /\ LeftAsFound
    /\ Len(out) = 1
    /\ out[1].by = "logFinish"
    /\ out[1].res.isErr
    /\ prefixStack = ret.base
    /\ InvOf(ret.id).state = "finished"

\* how many entries of the owners list t flow p pushed
Owned(t, p) == Cardinality({i \in 1..Len(t) : t[i] = Tag(p)})

\* the step is a flow's line written with the other flow's "op(<id>)" prefix
\* as its innermost entry
LineCrossed ==
    /\ ret.call \in {"logStart", "logEnd"}
    /\ Len(out) = 1
    /\ UnderOthers(ret.flow)
    /\ MarkedUnder(out[1].msg,
                   IF ret.call = "logStart" THEN "[started]"
                   ELSE IF flows[ret.flow].err.isErr THEN "[failed]" ELSE "[finished]",
                   Last(prefixStack))

\* the step is a flow's deferred pop taking a prefix of the other flow off
\* the stack
PopCrossed ==
    /\ ret.call = "PopPrefix"
    /\ Owned(owner, Other(ret.flow)) < Owned(ret.was, Other(ret.flow))

\* the two flows were never inside LogOp at the same time
OneAfterTheOther == \A p \in Flows : ~flows[p].met

\* C15: a line of one flow's operation carries the other flow's "op(<id>)"
\* prefix as its innermost entry, or a flow's final pop removes the other
\* flow's prefix, only if the two flows were inside LogOp at the same time
\* (the witness is such an interleaving); when one flow runs after the other
\* each line has its own flow's prefix innermost and each pop removes its own
\* flow's prefix.
C15_CrossedOnlyWhenInterleaved ==
    /\ \A p \in Flows : flows[p].crossed => flows[p].met
    /\ LineCrossed => flows[ret.flow].met
    /\ PopCrossed => flows[ret.flow].met
    /\ OneAfterTheOther =>
           /\ ~panicking
           /\ ret.call \in {"logStart", "logEnd"} =>
                  /\ Last(owner) = Tag(ret.flow)
                  /\ OpIdOf(Last(prefixStack)) = flows[ret.flow].n
           /\ ret.call = "PopPrefix" => ret.was = Append(owner, Tag(ret.flow))
           /\ ret.call = "PopPrefix.test" => out = <<>>

\* C15: no load is stale (both identifiers were taken, both prefixes pushed),
\* yet a line of flow 1 had the prefix of flow 2 innermost, and the final pop
\* of flow 1 now takes the prefix of flow 2 off the stack
C15_Witness ==
    /\ PopCrossed
    /\ ret.flow = 1
    /\ flows[1].crossed
    /\ opSequenceNum = 2
    /\ ret.mid = <<<<"op(", "1", ")">>, <<"op(", "2", ")">>>>
    /\ ret.was = <<Tag(1), Tag(2)>>
    /\ prefixStack = <<<<"op(", "1", ")">>>>
    /\ Inside(2)

\* the prefix entries copy j prepends, and its counter, are the same after
\* the step as before
KeepsContext(j) ==
    /\ Elements(heap', copies'[j].prefixStack) = Elements(heap, copies[j].prefixStack)
    /\ copies'[j].opSequenceNum = copies[j].opSequenceNum

\* C16, as claimed: once a Logger value is copied, no PushPrefix, PopPrefix,
\* LogOp, LogCmd or severity call through one of the two values changes the
\* prefix entries the other prepends to its messages, or the other's counter.
C16_AsClaimed ==
    [][(Len(copies) = 2 /\ Len(copies') = 2) =>
           \A i \in 1..2 : ret'.copy = i => KeepsContext(3 - i)]_vars

====
